---- MODULE Spec2Model ----
(***************************************************************************)
(* Model of the Suna mobile client's session/connection manager            *)
(* (SunaProvider, the stricter variant of SunaContext.tsx).                *)
(*                                                                         *)
(* React semantics used throughout:                                        *)
(*  - a handler runs with the values of the render it was created in, so   *)
(*    every asynchronous operation records the config / chat id it         *)
(*    captured when it was called (fields cfg, chatId);                    *)
(*  - all setState calls of one synchronous segment are committed          *)
(*    together, so one action = one synchronous segment of a handler;      *)
(*  - setMessages(prev => ...) works on the latest log.                    *)
(* Strings are sequences of one-character tokens so that trimming and      *)
(* sanitizing are computed; fixed texts are one-token sequences.           *)
(***************************************************************************)
EXTENDS Integers, Sequences, FiniteSets, TLC

VARIABLES
    config,            \* SunaConfig held by the provider
    stored,            \* AsyncStorage item 'sunaConfig' (<<cfg>>, or NoConfig when absent)
    loadPc,            \* position of loadConfig: "loading" | "done"
    isConnected,       \* connected flag
    connectionStatus,  \* status label
    messages,          \* message log
    currentChatId,     \* session id (NoChat = null)
    isLoading,         \* busy flag
    probes,            \* checkConnection calls in flight, in call order
    lastProbe,         \* the checkConnection call that completed last
    creates,           \* newChat calls (from the UI) in flight
    disp,              \* sendMessage calls in flight, in call order
    lastDisp,          \* the sendMessage call that finished last
    issued,            \* number of chat ids the server has issued
    clears,            \* number of clearChat calls so far
    chats,             \* number of newChat calls from the UI so far
    sends,             \* number of sendMessage calls so far
    updates,           \* number of updateConfig calls so far
    refreshes,         \* number of checkConnection calls made from the UI
    timers,            \* pending setTimeout(checkConnection, 500) of handleSave
    merged,            \* the loaded config with every partial of updateConfig
                       \* merged in, in call order
    appCrashed         \* a state updater threw while rendering

vars == <<config, stored, loadPc, isConnected, connectionStatus, messages,
          currentChatId, isLoading, probes, lastProbe, creates, disp, lastDisp,
          issued, clears, chats, sends, updates, refreshes, timers, merged,
          appCrashed>>

\* the variables no connectivity probe writes, and those no messaging call writes
chatVars == <<messages, currentChatId, isLoading, creates, disp, lastDisp, issued,
              clears, chats, sends, appCrashed>>
connVars == <<isConnected, connectionStatus, probes, lastProbe>>
confVars == <<config, stored, loadPc, updates, timers, merged>>

\* number of calls made from the UI so far
chatCalls == sends + chats + clears
connCalls == updates + refreshes

----------------------------------------------------------------------------
(* Bounds *)
\* messaging calls the user makes in one run (send, new chat, clear)
MaxChatCalls == 2
\* settings and refresh calls the user makes in one run
MaxConnCalls == 1
\* new-chat calls the user makes on the second copy of the provider
MaxLaxCalls == 3
\* messaging calls the user makes in a run that also refreshes the connection
MaxMixedCalls == 1
\* characters in a host or port field typed into the settings screen
MaxFieldLen == 2

(* Program constants *)
MaxMessageLength == 10000

NoConfig == <<>>
NoChat == 0

----------------------------------------------------------------------------
(* Characters and sanitization (getBaseUrl) *)
Letters == {"h", "x"}
Digits == {"5", "0"}
HostChar(c) == c \in Letters \cup Digits \cup {".", "-"}
PortChar(c) == c \in Digits

\* a mutation of SanitizeHost: the g flag of the pattern is missing, only the
\* first offending character is removed
SanitizeHostFirst(s) ==
    LET bad == {i \in DOMAIN s : ~HostChar(s[i])}
    IN  IF bad = {} THEN s
        ELSE LET i == CHOOSE j \in bad : \A k \in bad : j <= k
             IN  SubSeq(s, 1, i - 1) \o SubSeq(s, i + 1, Len(s))

SanitizeHost(s) == SelectSeq(s, HostChar)
SanitizePort(s) == SelectSeq(s, PortChar)

defaultConfig ==
    [serverUrl |-> <<"h">>, mobilePort |-> <<"5">>, autoConnect |-> TRUE]

\* a mutation of getBaseUrl: the check of the cleaned values is missing
getBaseUrlNoCheck(cfg) ==
    <<"http://">> \o SanitizeHost(cfg.serverUrl) \o <<":">> \o SanitizePort(cfg.mobilePort)

\* the base url, or "throw" for 'Invalid server configuration'
getBaseUrl(cfg) ==
    LET cleanServerUrl == SanitizeHost(cfg.serverUrl)
        cleanPort == SanitizePort(cfg.mobilePort)
    IN  IF cleanServerUrl = <<>> \/ cleanPort = <<>>
        THEN <<"throw">>
        ELSE <<"http://">> \o cleanServerUrl \o <<":">> \o cleanPort

ValidConfig(cfg) == getBaseUrl(cfg) # <<"throw">>

\* configurations a user can type into the settings screen
otherConfig ==
    [serverUrl |-> <<"h", "/">>, mobilePort |-> <<"5", "0">>, autoConnect |-> TRUE]
brokenConfig ==
    [serverUrl |-> <<"/">>, mobilePort |-> <<"5">>, autoConnect |-> FALSE]
Configs == {defaultConfig, otherConfig, brokenConfig}

\* {...config, ...newConfig}
Merge(cfg, partial) ==
    [k \in DOMAIN cfg |-> IF k \in DOMAIN partial THEN partial[k] ELSE cfg[k]]

Partials == Configs \cup { [autoConnect |-> FALSE] }

----------------------------------------------------------------------------
(* Message log *)
\* ids are unique (Date.now() + random suffix): an entry is identified by
\* the call that appended it (<<call number, kind of call and entry>>)
Msg(id, role, content) == [id |-> id, role |-> role, content |-> content]

\* a mutation of addMessage: the entry is put in front of the log
addMessagePrepends(log, id, role, content) == <<Msg(id, role, content)>> \o log

\* addMessage: setMessages(prev => [...prev, message])
addMessage(log, id, role, content) == Append(log, Msg(id, role, content))

\* a mutation of recordFailure: the failed call's user entry is rolled back
recordFailureRollback(log, id, text) ==
    addMessage(SelectSeq(log, LAMBDA m : m.id # <<id[1], "echo">>), id, "error", text)

\* addMessage('error', text) of a failure branch of sendMessage
recordFailure(log, id, text) == addMessage(log, id, "error", text)

IsSpace(c) == c = " "
RECURSIVE TrimLeft(_)
TrimLeft(s) == IF s # <<>> /\ IsSpace(Head(s)) THEN TrimLeft(Tail(s)) ELSE s
RECURSIVE TrimRight(_)
TrimRight(s) ==
    IF s # <<>> /\ IsSpace(s[Len(s)]) THEN TrimRight(SubSeq(s, 1, Len(s) - 1)) ELSE s
Trim(s) == TrimRight(TrimLeft(s))

\* the sequence s without its i-th element
RemoveAt(s, i) == SubSeq(s, 1, i - 1) \o SubSeq(s, i + 1, Len(s))

----------------------------------------------------------------------------
(* Connection Monitor: checkConnection *)
HealthOutcomes == {"ok", "notOk", "timeout", "netError"}
SunaOutcomes == {"connected", "otherStatus", "malformed", "timeout", "netError"}

\* what checkConnection can tell apart: response.ok or not / a thrown fetch
HealthClass(out) == IF out = "ok" THEN "ok" ELSE "failed"
\* ... and for the agent check: the status field, or anything that throws
SunaClass(out) == IF out \in {"connected", "otherStatus"} THEN out ELSE "fault"

NewProbe(cfg) ==
    [pc |-> "health", cfg |-> cfg, health |-> "none", suna |-> "none",
     sunaReq |-> FALSE, alone |-> probes = <<>>, final |-> <<>>]

Overlapped(ps) == [j \in DOMAIN ps |-> [ps[j] EXCEPT !.alone = FALSE]]

\* a call of checkConnection made with config cfg: the synchronous segment up
\* to the first await, or through the catch when getBaseUrl throws
ProbeStart(cfg) ==
    IF ValidConfig(cfg)
    THEN /\ connectionStatus' = <<"Connecting...">>
         /\ isConnected' = isConnected
         /\ probes' = Append(Overlapped(probes), NewProbe(cfg))
         /\ lastProbe' = lastProbe
    ELSE /\ connectionStatus' = <<"Disconnected">>
         /\ isConnected' = FALSE
         /\ probes' = Overlapped(probes)
         /\ lastProbe' = [NewProbe(cfg) EXCEPT !.pc = "done", !.health = "configError",
                                               !.final = <<FALSE, <<"Disconnected">> >>]

\* refresh button / pull-to-refresh: checkConnection()
CheckConnection ==
    /\ ~appCrashed
    /\ connCalls < MaxConnCalls
    /\ refreshes' = refreshes + 1
    /\ ProbeStart(config)
    /\ UNCHANGED <<chatVars, confVars>>

\* a mutation of healthOk: the check of response.ok is missing and a thrown
\* fetch is not taken to the catch
healthOkUnchecked(out) == TRUE

\* "if (response.ok)" after the awaited fetch returned (a timeout or a
\* transport error throws instead)
healthOk(out) == out = "ok"

\* the response of GET /api/health arrives (or the 5 s abort fires)
ProbeHealth(i, out) ==
    /\ ~appCrashed
    /\ probes[i].pc = "health"
    /\ IF healthOk(out)
       THEN /\ isConnected' = TRUE
            /\ connectionStatus' = <<"Connected">>
            /\ probes' = [probes EXCEPT ![i].pc = "suna", ![i].health = HealthClass(out),
                                        ![i].sunaReq = TRUE]
            /\ lastProbe' = lastProbe
       ELSE /\ isConnected' = FALSE
            /\ connectionStatus' = <<"Disconnected">>
            /\ probes' = RemoveAt(probes, i)
            /\ lastProbe' = [probes[i] EXCEPT !.pc = "done", !.health = HealthClass(out),
                                              !.final = <<FALSE, <<"Disconnected">> >>]
    /\ UNCHANGED <<chatVars, confVars, refreshes>>

\* a mutation of sunaLabel: the comparison with 'connected' is inverted
sunaLabelInverted(out) ==
    IF out # "connected" THEN <<"Connected to Suna">>
    ELSE <<"Mobile connected, Suna offline">>

\* the label chosen from sunaData.status
sunaLabel(out) ==
    IF out = "connected" THEN <<"Connected to Suna">>
    ELSE <<"Mobile connected, Suna offline">>

\* a mutation of ProbeSuna: a failed agent check is reported in the message
\* log as well
ProbeSunaLogsFailure(i, out) ==
    /\ ~appCrashed
    /\ probes[i].pc = "suna"
    /\ IF out \in {"connected", "otherStatus"}
       THEN /\ connectionStatus' = sunaLabel(out)
            /\ isConnected' = isConnected
            /\ messages' = messages
       ELSE /\ isConnected' = FALSE
            /\ connectionStatus' = <<"Disconnected">>
            /\ messages' = addMessage(messages, <<refreshes, "probe">>, "error",
                                      <<"Connection check failed">>)
    /\ probes' = RemoveAt(probes, i)
    /\ lastProbe' = [probes[i] EXCEPT !.pc = "done", !.suna = SunaClass(out),
                                      !.final = <<isConnected', connectionStatus'>>]
    /\ UNCHANGED <<currentChatId, isLoading, creates, disp, lastDisp, issued, clears,
                   chats, sends, appCrashed, confVars, refreshes>>

\* the response of GET /api/suna/health arrives (or the 5 s abort fires)
ProbeSuna(i, out) ==
    /\ ~appCrashed
    /\ probes[i].pc = "suna"
    /\ IF out \in {"connected", "otherStatus"}
       THEN /\ connectionStatus' = sunaLabel(out)
            /\ isConnected' = isConnected
       ELSE /\ isConnected' = FALSE
            /\ connectionStatus' = <<"Disconnected">>
    /\ probes' = RemoveAt(probes, i)
    /\ lastProbe' = [probes[i] EXCEPT !.pc = "done", !.suna = SunaClass(out),
                                      !.final = <<isConnected', connectionStatus'>>]
    /\ UNCHANGED <<chatVars, confVars, refreshes>>

----------------------------------------------------------------------------
(* Client Facade: configuration *)

\* the auto-connect effect, run after every setConfig:
\* if (config.autoConnect) checkConnection()
AutoConnectEffect(cfg) ==
    IF cfg.autoConnect
    THEN ProbeStart(cfg)
    ELSE UNCHANGED connVars

\* AsyncStorage.getItem settles: loadConfig sets the config when an item exists
LoadConfig(readOk) ==
    /\ ~appCrashed
    /\ loadPc = "loading"
    /\ loadPc' = "done"
    /\ IF readOk /\ stored # NoConfig
       THEN /\ config' = Merge(defaultConfig, stored[1])
            /\ merged' = config'
            /\ AutoConnectEffect(config')
       ELSE UNCHANGED <<config, merged, connVars>>
    /\ UNCHANGED <<chatVars, stored, updates, timers, refreshes>>

\* updateConfig(newConfig); saveOk is the outcome of AsyncStorage.setItem
updateConfig(newConfig, saveOk) ==
    LET updatedConfig == Merge(config, newConfig)
    IN  /\ config' = updatedConfig
        /\ stored' = IF saveOk THEN <<updatedConfig>> ELSE stored
        /\ merged' = Merge(merged, newConfig)
        /\ AutoConnectEffect(updatedConfig)

UpdateConfig(newConfig, saveOk) ==
    /\ ~appCrashed
    /\ connCalls < MaxConnCalls
    /\ updates' = updates + 1
    /\ updateConfig(newConfig, saveOk)
    /\ UNCHANGED <<chatVars, loadPc, timers, refreshes>>

\* two calls of updateConfig made one after the other by one handler: both
\* close over the config of the render the handler was created in; the two
\* setConfig calls are batched and the items are written in call order
UpdateConfigTwice(first, second, firstSaved, secondSaved) ==
    LET updatedFirst == Merge(config, first)
        updatedSecond == Merge(config, second)
    IN  /\ ~appCrashed
        /\ connCalls < MaxConnCalls
        /\ updates' = updates + 2
        /\ config' = updatedSecond
        /\ stored' = IF secondSaved THEN <<updatedSecond>>
                     ELSE IF firstSaved THEN <<updatedFirst>> ELSE stored
        /\ merged' = Merge(Merge(merged, first), second)
        /\ AutoConnectEffect(updatedSecond)
        /\ UNCHANGED <<chatVars, loadPc, timers, refreshes>>

\* SettingsScreen.handleSave: await updateConfig(tempConfig), then
\* setTimeout(checkConnection, 500) with the checkConnection of the render
\* the handler was created in (the config before the update)
HandleSave(tempConfig, saveOk) ==
    /\ ~appCrashed
    /\ connCalls < MaxConnCalls
    /\ updates' = updates + 1
    /\ updateConfig(tempConfig, saveOk)
    /\ timers' = Append(timers, config)
    /\ UNCHANGED <<chatVars, loadPc, refreshes>>

\* the 500 ms timer of handleSave fires
SaveTimer ==
    /\ ~appCrashed
    /\ timers # <<>>
    /\ timers' = Tail(timers)
    /\ ProbeStart(Head(timers))
    /\ UNCHANGED <<chatVars, config, stored, loadPc, updates, merged, refreshes>>

----------------------------------------------------------------------------
(* Session Manager: newChat, clearChat *)
CreateOutcomes == {"ok", "notOk", "malformed", "timeout", "netError"}
CreateClass(out) == IF out = "ok" THEN "ok" ELSE "failed"

\* a mutation of newChatSettled: setMessages([]) is missing, the
\* announcement is appended to the log as it is
newChatSettledKeepsLog(out, mid) ==
    IF out = "ok"
    THEN [chat |-> issued + 1,
          log |-> addMessage(messages, mid, "system", <<"New conversation started!">>),
          issued |-> issued + 1]
    ELSE [chat |-> currentChatId, log |-> messages, issued |-> issued]

\* a mutation of newChatSettled: the catch block drops the session and
\* reports the failure in the log
newChatSettledReports(out, mid) ==
    IF out = "ok"
    THEN [chat |-> issued + 1,
          log |-> addMessage(<<>>, mid, "system", <<"New conversation started!">>),
          issued |-> issued + 1]
    ELSE [chat |-> NoChat,
          log |-> addMessage(messages, mid, "error", <<"Failed to start new chat">>),
          issued |-> issued]

\* the effect of a settled POST /api/chat/new on session id and log:
\* setCurrentChatId(data.chat_id); setMessages([]); addMessage('system', ...)
\* when response.ok and the body parses, nothing otherwise (Alert only)
\* (the server answers a successful create with a fresh chat id); mid is the
\* id of the announcement
newChatSettled(out, mid) ==
    IF out = "ok"
    THEN [chat |-> issued + 1,
          log |-> addMessage(<<>>, mid, "system", <<"New conversation started!">>),
          issued |-> issued + 1]
    ELSE [chat |-> currentChatId, log |-> messages, issued |-> issued]

\* the New Chat button: newChat()
NewChat ==
    /\ ~appCrashed
    /\ chatCalls < MaxChatCalls
    /\ chats' = chats + 1
    /\ creates' = IF ValidConfig(config)
                  THEN Append(creates, [n |-> chats', cfg |-> config])
                  ELSE creates
    /\ UNCHANGED <<confVars, connVars, messages, currentChatId, isLoading, disp,
                   lastDisp, issued, clears, sends, refreshes, appCrashed>>

\* the response of POST /api/chat/new arrives (or the 10 s abort fires)
NewChatResponse(k, out) ==
    /\ ~appCrashed
    /\ LET r == newChatSettled(out, <<creates[k].n, "chat">>)
       IN  /\ currentChatId' = r.chat
           /\ messages' = r.log
           /\ issued' = r.issued
    /\ creates' = RemoveAt(creates, k)
    /\ UNCHANGED <<confVars, connVars, isLoading, disp, lastDisp, clears, chats,
                   sends, refreshes, appCrashed>>

\* a mutation of clearedLog: setMessages([]) is missing
clearedLogAppends(log, mid) ==
    addMessage(log, mid, "system", <<"Chat cleared. Messages are still saved on server.">>)

\* the log clearChat leaves: setMessages([]), then addMessage('system', ...)
clearedLog(log, mid) ==
    addMessage(<<>>, mid, "system", <<"Chat cleared. Messages are still saved on server.">>)

\* a mutation of ClearChat: the session is dropped together with the log
ClearChatDropsSession ==
    /\ ~appCrashed
    /\ chatCalls < MaxChatCalls
    /\ clears' = clears + 1
    /\ messages' = clearedLog(messages, <<clears', "clear">>)
    /\ currentChatId' = NoChat
    /\ UNCHANGED <<confVars, connVars, isLoading, creates, disp,
                   lastDisp, issued, chats, sends, refreshes, appCrashed>>

\* clearChat()
ClearChat ==
    /\ ~appCrashed
    /\ chatCalls < MaxChatCalls
    /\ clears' = clears + 1
    /\ messages' = clearedLog(messages, <<clears', "clear">>)
    /\ UNCHANGED <<confVars, connVars, currentChatId, isLoading, creates, disp,
                   lastDisp, issued, chats, sends, refreshes, appCrashed>>

----------------------------------------------------------------------------
(* Message Dispatcher: sendMessage *)
Oversized == [n \in 1..(MaxMessageLength + 1) |-> "h"]
Inputs == { <<>>, <<" ">>, <<" ", "h">>, Oversized }

SendOutcomes ==
    {"ok", "rejectedError", "rejectedNoError", "rejectedUnparseable", "timeout", "netError"}
FetchOutcomes ==
    {"assistant", "notAssistant", "empty", "malformed", "timeout", "netError"}
\* where the TypeError of loadingId.toString() (loadingId is undefined, as
\* addMessage returns nothing) surfaces: in the try block, or in the render
\* that runs the queued updater
Faults == {"caught", "crash"}

NoRequest == <<>>

NoId == <<0, "none">>

\* the n-th sendMessage call: what it captured (cfg, chatId), its argument,
\* its position, the requests it has issued (sendReq, fetchReq: <<the chat
\* id in the path>>; sendBody: <<the message field of the send request>>),
\* the ids of the entries it appended and the session the client held when
\* it appended its user entry (session)
NewDispatch(n, message) ==
    [n |-> n, pc |-> "called", cfg |-> config, chatId |-> currentChatId,
     msg |-> message, lazy |-> FALSE, createOut |-> "none", createReq |-> FALSE,
     sendReq |-> NoRequest, fetchReq |-> NoRequest, echoId |-> NoId, phId |-> NoId,
     sendBody |-> NoRequest, session |-> NoChat, setBusy |-> FALSE,
     outcome |-> "none"]

NoDispatch == [NewDispatch(0, <<>>) EXCEPT !.pc = "none", !.cfg = defaultConfig,
                                           !.chatId = NoChat]

\* the message field of the body of the send request: message.trim()
payload(message) == Trim(message)

\* sendMessage from "// Add user message" to the await of the send request,
\* or through the catch when getBaseUrl throws; d is the call, the other
\* in-flight calls are ds
SendPhase(d, ds, log) ==
    LET echoed == addMessage(log, <<d.n, "echo">>, "user", d.msg)
    IN  IF ValidConfig(d.cfg)
        THEN /\ messages' = echoed
             /\ isLoading' = TRUE
             /\ disp' = Append(ds, [d EXCEPT !.pc = "sending", !.echoId = <<d.n, "echo">>,
                                             !.setBusy = TRUE, !.sendReq = <<d.chatId>>,
                                             !.sendBody = <<payload(d.msg)>>,
                                             !.session = currentChatId'])
             /\ lastDisp' = lastDisp
        ELSE /\ messages' = recordFailure(echoed, <<d.n, "end">>,
                                          <<"Failed to send message">>)
             /\ isLoading' = FALSE
             /\ disp' = ds
             /\ lastDisp' = [d EXCEPT !.pc = "done", !.echoId = <<d.n, "echo">>,
                                      !.session = currentChatId',
                                      !.setBusy = TRUE, !.outcome = "configError"]

\* a mutation of awaitNewChat: newChat() is not awaited, the send request
\* goes out while the create request is pending
awaitNewChatMissing(d) ==
    [d EXCEPT !.pc = "creating", !.lazy = TRUE, !.createReq = TRUE, !.sendReq = <<d.chatId>>]

\* "if (!currentChatId) await newChat()" with a valid config: the create
\* request is issued and sendMessage waits for newChat to return
awaitNewChat(d) ==
    [d EXCEPT !.pc = "creating", !.lazy = TRUE, !.createReq = TRUE]

\* a mutation of notConnected: the connectivity check is missing
notConnectedIgnored(connected) == FALSE

\* "if (!isConnected)": sendMessage returns after an Alert
notConnected(connected) == ~connected

\* a mutation of emptyMessage: the message is not trimmed before the test
emptyMessageUntrimmed(message) == message = <<>>

\* "!message || typeof message !== 'string' || message.trim().length === 0"
emptyMessage(message) == Trim(message) = <<>>

\* "message.length > 10000" (the length of the message as passed)
tooLong(message) == Len(message) > MaxMessageLength

\* a call of sendMessage(message)
SendMessage(message) ==
    LET d == NewDispatch(sends + 1, message)
        reject(why) ==
            /\ lastDisp' = [d EXCEPT !.pc = "done", !.outcome = why]
            /\ UNCHANGED <<messages, isLoading, disp>>
    IN  /\ ~appCrashed
        /\ chatCalls < MaxChatCalls
        /\ sends' = sends + 1
        /\ UNCHANGED <<confVars, connVars, currentChatId, issued, creates, clears,
                       chats, refreshes, appCrashed>>
        /\ IF notConnected(isConnected) THEN reject("notConnected")
           ELSE IF emptyMessage(message) THEN reject("emptyMessage")
           ELSE IF tooLong(message) THEN reject("tooLong")
           ELSE IF currentChatId = NoChat
           THEN \* await newChat()
                IF ValidConfig(config)
                THEN /\ disp' = Append(disp, awaitNewChat(d))
                     /\ UNCHANGED <<messages, isLoading, lastDisp>>
                ELSE SendPhase([d EXCEPT !.lazy = TRUE, !.createOut = "configError"],
                               disp, messages)
           ELSE SendPhase(d, disp, messages)

\* the create request of a lazily creating sendMessage settles; sendMessage
\* resumes after "await newChat()" whatever the result
DispCreate(i, out) ==
    /\ ~appCrashed
    /\ disp[i].pc = "creating"
    /\ LET r == newChatSettled(out, <<disp[i].n, "lazyChat">>)
       IN  /\ currentChatId' = r.chat
           /\ issued' = r.issued
           /\ SendPhase([disp[i] EXCEPT !.createOut = CreateClass(out)],
                        RemoveAt(disp, i), r.log)
    /\ UNCHANGED <<confVars, connVars, creates, clears, chats, sends, refreshes,
                   appCrashed>>

\* the outer catch of sendMessage: error.name === 'AbortError' (the 30 s
\* abort fired) or any other thrown error
sendErrorText(out) ==
    IF out = "timeout" THEN <<"Request timed out">> ELSE <<"Failed to send message">>

\* a mutation of rejectText: the payload of a rejected send is not read
rejectTextUnread(out) == <<"Failed to send message">>

\* the text for a non-2xx send response: errorData.error, else 'Failed to
\* send message'; errorData is { error: 'Server error' } when the body does
\* not parse
rejectText(out) ==
    CASE out = "rejectedError" -> <<"(error text of the payload)">>
      [] out = "rejectedNoError" -> <<"Failed to send message">>
      [] out = "rejectedUnparseable" -> <<"Server error">>

\* the response of POST /api/chat/{id}/send arrives (or the 30 s abort fires)
DispSend(i, out) ==
    LET fail(text) ==
            /\ messages' = recordFailure(messages, <<disp[i].n, "end">>, text)
            /\ isLoading' = FALSE
            /\ disp' = RemoveAt(disp, i)
            /\ lastDisp' = [disp[i] EXCEPT !.pc = "done", !.outcome = out]
    IN  /\ ~appCrashed
        /\ disp[i].pc = "sending"
        /\ CASE out = "ok" ->
                  /\ messages' = addMessage(messages, <<disp[i].n, "thinking">>, "system",
                                            <<"Suna is thinking...">>)
                  /\ isLoading' = isLoading
                  /\ disp' = [disp EXCEPT ![i].pc = "settling",
                                          ![i].phId = <<disp[i].n, "thinking">>]
                  /\ lastDisp' = lastDisp
             [] out = "rejectedError" -> fail(rejectText(out))
             [] out = "rejectedNoError" -> fail(rejectText(out))
             [] out = "rejectedUnparseable" -> fail(rejectText(out))
             [] out = "timeout" -> fail(sendErrorText(out))
             [] out = "netError" -> fail(sendErrorText(out))
        /\ UNCHANGED <<confVars, connVars, currentChatId, issued, creates, clears,
                       chats, sends, refreshes, appCrashed>>

\* a mutation of DispTimer: the timer callback clears busy without fetching
DispTimerSkipsFetch(i) ==
    /\ ~appCrashed
    /\ disp[i].pc = "settling"
    /\ disp' = RemoveAt(disp, i)
    /\ lastDisp' = [disp[i] EXCEPT !.pc = "done", !.outcome = "resolved"]
    /\ isLoading' = FALSE
    /\ UNCHANGED <<confVars, connVars, messages, currentChatId, creates,
                   issued, clears, chats, sends, refreshes, appCrashed>>

\* the 2 s settling timer fires: the fetch request is issued
DispTimer(i) ==
    /\ ~appCrashed
    /\ disp[i].pc = "settling"
    /\ disp' = [disp EXCEPT ![i].pc = "fetching", ![i].fetchReq = <<disp[i].chatId>>]
    /\ UNCHANGED <<confVars, connVars, messages, currentChatId, isLoading, creates,
                   lastDisp, issued, clears, chats, sends, refreshes, appCrashed>>

\* a mutation of fetchErrorText: the catch does not look at error.name
fetchErrorTextSame(out) == <<"Failed to get response">>

\* the catch of the timer callback: error.name === 'AbortError' (the 10 s
\* abort fired) or any other thrown error
fetchErrorText(out) ==
    IF out = "timeout" THEN <<"Response timed out">> ELSE <<"Failed to get response">>

\* the response of GET /api/chat/{id}/messages arrives (or the 10 s abort fires)
DispFetch(i, out, fault) ==
    LET finish(role, text, how) ==
            /\ messages' = IF role = "error"
                           THEN recordFailure(messages, <<disp[i].n, "end">>, text)
                           ELSE addMessage(messages, <<disp[i].n, "end">>, role, text)
            /\ isLoading' = FALSE
            /\ lastDisp' = [disp[i] EXCEPT !.pc = "done", !.outcome = how]
            /\ appCrashed' = appCrashed
    IN  /\ ~appCrashed
        /\ disp[i].pc = "fetching"
        /\ disp' = RemoveAt(disp, i)
        /\ CASE out = "timeout" -> finish("error", fetchErrorText(out), "fetchTimeout")
             [] out \in {"netError", "malformed"} ->
                  finish("error", fetchErrorText(out), "fetchError")
             [] OTHER ->
                  \* prev.filter(msg => msg.id !== loadingId.toString()):
                  \* the callback runs once per entry and throws on the first
                  IF messages = <<>>
                  THEN IF out = "assistant"
                       THEN finish("assistant", <<"(content of the last message)">>, "resolved")
                       ELSE finish("assistant", <<"Response received from Suna.">>, "resolved")
                  ELSE IF fault = "caught"
                  THEN finish("error", fetchErrorText("typeError"), "fetchFault")
                  ELSE /\ appCrashed' = TRUE
                       /\ lastDisp' = [disp[i] EXCEPT !.pc = "done", !.outcome = "crashed"]
                       /\ UNCHANGED <<messages, isLoading>>
        /\ UNCHANGED <<confVars, connVars, currentChatId, issued, creates, clears,
                       chats, sends, refreshes>>

----------------------------------------------------------------------------
(* The provider after its first render and effects: loadConfig is reading   *)
(* the store and the auto-connect effect has called checkConnection with    *)
(* defaultConfig.                                                           *)
FirstProbe ==
    [pc |-> "health", cfg |-> defaultConfig, health |-> "none", suna |-> "none",
     sunaReq |-> FALSE, alone |-> TRUE, final |-> <<>>]

\* no messaging call and no settings call has been made
InitIdle ==
    /\ messages = <<>>
    /\ currentChatId = NoChat
    /\ isLoading = FALSE
    /\ creates = <<>>
    /\ disp = <<>>
    /\ lastDisp = NoDispatch
    /\ issued = 0
    /\ clears = 0
    /\ chats = 0
    /\ sends = 0
    /\ updates = 0
    /\ refreshes = 0
    /\ timers = <<>>
    /\ merged = config
    /\ appCrashed = FALSE

Init ==
    /\ config = defaultConfig
    /\ stored \in {NoConfig} \cup {<<c>> : c \in Configs}
    /\ loadPc = "loading"
    /\ isConnected = FALSE
    /\ connectionStatus = <<"Connecting...">>
    /\ probes = <<FirstProbe>>
    /\ lastProbe = [FirstProbe EXCEPT !.pc = "none"]
    /\ InitIdle

Next ==
    \/ CheckConnection
    \/ \E i \in DOMAIN probes, out \in HealthOutcomes : ProbeHealth(i, out)
    \/ \E i \in DOMAIN probes, out \in SunaOutcomes : ProbeSuna(i, out)
    \/ \E readOk \in BOOLEAN : LoadConfig(readOk)
    \/ \E p \in Partials, saveOk \in BOOLEAN : UpdateConfig(p, saveOk)
    \/ \E p, q \in Partials, saved, savedNext \in BOOLEAN :
          UpdateConfigTwice(p, q, saved, savedNext)
    \/ \E c \in Configs, saveOk \in BOOLEAN : HandleSave(c, saveOk)
    \/ SaveTimer
    \/ NewChat
    \/ \E k \in DOMAIN creates, out \in CreateOutcomes : NewChatResponse(k, out)
    \/ ClearChat
    \/ \E m \in Inputs : SendMessage(m)
    \/ \E i \in DOMAIN disp, out \in CreateOutcomes : DispCreate(i, out)
    \/ \E i \in DOMAIN disp, out \in SendOutcomes : DispSend(i, out)
    \/ \E i \in DOMAIN disp : DispTimer(i)
    \/ \E i \in DOMAIN disp, out \in FetchOutcomes, fault \in Faults : DispFetch(i, out, fault)

Spec == Init /\ [][Next]_vars

\* the connection monitor and the configuration alone (no messaging call)
NextProbe ==
    \/ CheckConnection
    \/ \E i \in DOMAIN probes, out \in HealthOutcomes : ProbeHealth(i, out)
    \/ \E i \in DOMAIN probes, out \in SunaOutcomes : ProbeSuna(i, out)
    \/ \E readOk \in BOOLEAN : LoadConfig(readOk)
    \/ \E p \in Partials, saveOk \in BOOLEAN : UpdateConfig(p, saveOk)
    \/ \E c \in Configs, saveOk \in BOOLEAN : HandleSave(c, saveOk)
    \/ SaveTimer

SpecProbe == Init /\ [][NextProbe]_vars

\* the same with callers that update the configuration twice in a row
NextConfig ==
    \/ NextProbe
    \/ \E p, q \in Partials, saved, savedNext \in BOOLEAN :
          UpdateConfigTwice(p, q, saved, savedNext)

SpecConfig == Init /\ [][NextConfig]_vars

\* messaging once start-up is over (no refresh and no settings change)
NextChat ==
    \/ NewChat
    \/ \E k \in DOMAIN creates, out \in CreateOutcomes : NewChatResponse(k, out)
    \/ ClearChat
    \/ \E m \in Inputs : SendMessage(m)
    \/ \E i \in DOMAIN disp, out \in CreateOutcomes : DispCreate(i, out)
    \/ \E i \in DOMAIN disp, out \in SendOutcomes : DispSend(i, out)
    \/ \E i \in DOMAIN disp : DispTimer(i)
    \/ \E i \in DOMAIN disp, out \in FetchOutcomes, fault \in Faults : DispFetch(i, out, fault)

\* The states start-up ends in when the store is empty or holds brokenConfig
\* (which does not auto-connect): loadConfig has settled, and the first probe
\* has completed, with the agent connected or with a failed transport check.
\* Each is reached from Init by LoadConfig, ProbeHealth and ProbeSuna.
InitChat ==
    /\ \E c \in {defaultConfig, brokenConfig}, up \in BOOLEAN :
          /\ config = c
          /\ stored = IF c = defaultConfig THEN NoConfig ELSE <<c>>
          /\ isConnected = up
          /\ connectionStatus = IF up THEN <<"Connected to Suna">> ELSE <<"Disconnected">>
          /\ lastProbe = [FirstProbe EXCEPT
                            !.pc = "done",
                            !.health = IF up THEN "ok" ELSE "failed",
                            !.suna = IF up THEN "connected" ELSE "none",
                            !.sunaReq = up,
                            !.final = <<up, IF up THEN <<"Connected to Suna">>
                                            ELSE <<"Disconnected">> >>]
    /\ loadPc = "done"
    /\ probes = <<>>
    /\ InitIdle

SpecChat == InitChat /\ [][NextChat]_vars

----------------------------------------------------------------------------
(* The second copy of the provider, which builds the url from the raw       *)
(* fields and sets no abort timers: its session manager                     *)

\* getBaseUrl of the second copy: nothing is stripped and nothing is thrown
getBaseUrlLax(cfg) == <<"http://">> \o cfg.serverUrl \o <<":">> \o cfg.mobilePort

\* newChat() of the second copy: the create request goes out to whatever
\* getBaseUrl returns
NewChatLax ==
    /\ ~appCrashed
    /\ chats < MaxLaxCalls
    /\ chats' = chats + 1
    /\ creates' = IF getBaseUrlLax(config) # <<"throw">>
                  THEN Append(creates, [n |-> chats', cfg |-> config])
                  ELSE creates
    /\ UNCHANGED <<confVars, connVars, messages, currentChatId, isLoading, disp,
                   lastDisp, issued, clears, sends, refreshes, appCrashed>>

\* the session manager of the second copy (its newChat has no abort timer;
\* its response handling and its clearChat are those of the first copy)
NextLax ==
    \/ NewChatLax
    \/ \E k \in DOMAIN creates, out \in CreateOutcomes \ {"timeout"} : NewChatResponse(k, out)
    \/ ClearChat

SpecLax == InitChat /\ [][NextLax]_vars

\* messaging and refreshing side by side once start-up is over (no settings
\* change)
NextMixed ==
    \/ CheckConnection
    \/ \E i \in DOMAIN probes, out \in HealthOutcomes : ProbeHealth(i, out)
    \/ \E i \in DOMAIN probes, out \in SunaOutcomes : ProbeSuna(i, out)
    \/ chatCalls < MaxMixedCalls /\ NewChat
    \/ \E k \in DOMAIN creates, out \in CreateOutcomes : NewChatResponse(k, out)
    \/ chatCalls < MaxMixedCalls /\ ClearChat
    \/ \E m \in Inputs : chatCalls < MaxMixedCalls /\ SendMessage(m)
    \/ \E i \in DOMAIN disp, out \in CreateOutcomes : DispCreate(i, out)
    \/ \E i \in DOMAIN disp, out \in SendOutcomes : DispSend(i, out)
    \/ \E i \in DOMAIN disp : DispTimer(i)
    \/ \E i \in DOMAIN disp, out \in FetchOutcomes, fault \in Faults : DispFetch(i, out, fault)

SpecMixed == InitChat /\ [][NextMixed]_vars

----------------------------------------------------------------------------
(* The provider restarted with a stored configuration whose host and port   *)
(* are any short strings the settings screen accepts                        *)
HostAlphabet == {"h", ".", "/"}
PortAlphabet == {"5", ":"}
Strings(alphabet, n) == UNION { [1..k -> alphabet] : k \in 0..n }

TypedConfigs ==
    { [serverUrl |-> h, mobilePort |-> p, autoConnect |-> TRUE] :
          h \in Strings(HostAlphabet, MaxFieldLen), p \in Strings(PortAlphabet, MaxFieldLen) }

\* loadConfig has installed the stored config and the probe of the
\* auto-connect effect has ended Disconnected (on the configuration, or on
\* a failed transport check)
InitTyped ==
    /\ \E c \in TypedConfigs :
          /\ stored = <<c>>
          /\ config = Merge(defaultConfig, stored[1])
          /\ lastProbe = [FirstProbe EXCEPT
                            !.pc = "done", !.cfg = c,
                            !.health = IF ValidConfig(c) THEN "failed" ELSE "configError",
                            !.final = <<FALSE, <<"Disconnected">> >>]
    /\ loadPc = "done"
    /\ isConnected = FALSE
    /\ connectionStatus = <<"Disconnected">>
    /\ probes = <<>>
    /\ InitIdle

\* the user refreshes the connection: getBaseUrl runs on the typed fields
NextTyped ==
    \/ CheckConnection
    \/ \E i \in DOMAIN probes, out \in HealthOutcomes : ProbeHealth(i, out)
    \/ \E i \in DOMAIN probes, out \in SunaOutcomes : ProbeSuna(i, out)

SpecTyped == InitTyped /\ [][NextTyped]_vars

----------------------------------------------------------------------------
(* Properties *)

\* every sendMessage call still known: those in flight and the last finished
Dispatches == {disp[i] : i \in DOMAIN disp} \cup {lastDisp}

Disconnected == <<FALSE, <<"Disconnected">> >>
TransportOnly == <<TRUE, <<"Mobile connected, Suna offline">> >>
FullyConnected == <<TRUE, <<"Connected to Suna">> >>
ConnectedLabels ==
    { <<"Connected">>, <<"Connected to Suna">>, <<"Mobile connected, Suna offline">> }

InLog(id) == \E k \in DOMAIN messages : messages[k].id = id

\* C1: a call of sendMessage made while isLoading is true is rejected: it
\* starts no dispatch, issues no request and leaves log and busy flag alone.
C1_BusyRejects ==
    [][(isLoading /\ sends' # sends) =>
          (disp' = disp /\ messages' = messages /\ isLoading' = isLoading
           /\ ~lastDisp'.createReq /\ lastDisp'.sendReq = NoRequest)]_vars

\* C2: when a dispatch that appended the placeholder has finished, the
\* placeholder is no longer in the log.
C2_PlaceholderRemoved ==
    (lastDisp.pc = "done" /\ lastDisp.phId # NoId) => ~InLog(lastDisp.phId)

\* C3: a sendMessage whose lazy createSession request failed appends no user
\* message, issues no send request and never sets busy.
C3_CreateFailureAborts ==
    \A d \in Dispatches :
        (d.lazy /\ d.createOut = "failed") =>
            (d.echoId = NoId /\ d.sendReq = NoRequest /\ ~d.setBusy)

\* C4: a sendMessage called without a session issues its send request only
\* after its create request was issued and has settled; while the create
\* request is pending no send request of that call exists.
C4_CreateBeforeSend ==
    \A d \in Dispatches :
        d.lazy =>
            /\ d.pc = "creating" => d.sendReq = NoRequest
            /\ d.sendReq # NoRequest => (d.createReq /\ d.createOut \in {"ok", "failed"})

C4_Witness ==
    \E d \in Dispatches :
        d.lazy /\ d.createReq /\ d.createOut = "ok" /\ d.sendReq # NoRequest

SendFailures == {"rejectedError", "rejectedNoError", "rejectedUnparseable", "timeout", "netError"}
FetchFailures == {"fetchTimeout", "fetchError", "fetchFault"}

\* C5: a step in which a dispatch that had appended its user message ends in
\* a failure keeps the whole previous log (the user entry included) and only
\* appends one error-role entry.
C5_EchoDurable ==
    [][\A i \in DOMAIN disp :
          (/\ disp[i].echoId # NoId
           /\ lastDisp' # lastDisp
           /\ lastDisp'.n = disp[i].n
           /\ lastDisp'.outcome \in SendFailures \cup FetchFailures)
          => (/\ Len(messages') = Len(messages) + 1
              /\ SubSeq(messages', 1, Len(messages)) = messages
              /\ messages'[Len(messages')].role = "error")]_vars

C5_Witness ==
    /\ lastDisp.outcome \in SendFailures \cup FetchFailures
    /\ \E k \in DOMAIN messages :
          /\ messages[k] = Msg(lastDisp.echoId, "user", lastDisp.msg)
          /\ \E j \in DOMAIN messages :
                j > k /\ messages[j].role = "error" /\ messages[j].id[1] = lastDisp.n

\* C6: a probe whose transport check succeeded and whose agent-health check
\* timed out, failed or returned a malformed body ends connected.
C6_NeverBelowTransportOnly ==
    (lastProbe.pc = "done" /\ lastProbe.health = "ok" /\ lastProbe.suna = "fault")
        => lastProbe.final = TransportOnly

\* C7: a probe whose transport check failed ends Disconnected and has issued
\* no agent-health request.
C7_TransportFailDisconnected ==
    (lastProbe.pc = "done" /\ lastProbe.health = "failed")
        => (lastProbe.final = Disconnected /\ ~lastProbe.sunaReq)

C7_Witness ==
    /\ lastProbe.pc = "done" /\ lastProbe.health = "failed"
    /\ lastProbe.final = Disconnected

\* C8: a probe with a valid config that no other probe overlapped ends
\* FullyConnected when the agent reports 'connected' and TransportOnly when
\* it reports another status.
C8_VerdictOfResponses ==
    (lastProbe.pc = "done" /\ lastProbe.alone /\ lastProbe.health = "ok") =>
        /\ lastProbe.suna = "connected" => lastProbe.final = FullyConnected
        /\ lastProbe.suna = "otherStatus" => lastProbe.final = TransportOnly

C8_Witness ==
    /\ lastProbe.pc = "done" /\ lastProbe.alone /\ ValidConfig(lastProbe.cfg)
    /\ lastProbe.health = "ok" /\ lastProbe.suna = "connected"
    /\ <<isConnected, connectionStatus>> = FullyConnected

\* what a probe that runs alone leaves behind, from its two responses
Verdict(p) ==
    IF p.health = "ok" /\ p.suna = "connected" THEN FullyConnected
    ELSE IF p.health = "ok" /\ p.suna = "otherStatus" THEN TransportOnly
    ELSE Disconnected

\* C9: once every probe has settled, flag and label are the verdict of the
\* probe that completed last.
C9_LastCompletedWins ==
    (probes = <<>> /\ lastProbe.pc = "done")
        => <<isConnected, connectionStatus>> = Verdict(lastProbe)

\* C10: the label is 'Disconnected' only when the flag is false and one of
\* the connected labels only when the flag is true.
C10_FlagLabelAgree ==
    /\ connectionStatus = <<"Disconnected">> => ~isConnected
    /\ connectionStatus \in ConnectedLabels => isConnected

\* the step ends the in-flight sendMessage call d: it becomes the last
\* finished call
Terminates(d) == lastDisp' # lastDisp /\ lastDisp'.n = d.n

\* C11: for every sendMessage call in flight that has set busy, a step that
\* does not end the call leaves busy true, and the step that ends it takes
\* busy from true to false.
C11_BusyClearedOnce ==
    [][\A i \in DOMAIN disp :
          disp[i].setBusy =>
              IF Terminates(disp[i])
              THEN isLoading /\ ~isLoading'
              ELSE isLoading']_vars

\* C12: busy is never left true with no sendMessage call in flight (no step
\* could clear it any more); with every dispatch finished the client is idle
\* and running.
C12_NoStuckBusy ==
    disp = <<>> => (~isLoading /\ ~appCrashed)

\* C13: a step in which a sendMessage call ends in a configuration error
\* (getBaseUrl threw) or a validation error (empty or oversized message)
\* leaves the message log as it was: no user entry, no error entry.
C13_ErrorsLeaveLog ==
    [][(/\ lastDisp' # lastDisp
        /\ lastDisp'.outcome \in {"configError", "emptyMessage", "tooLong"})
       => messages' = messages]_vars

\* the requests a sendMessage call has issued
Requested(d) == d.createReq \/ d.sendReq # NoRequest \/ d.fetchReq # NoRequest

\* C14: while the configuration does not sanitize to a host and a port, no
\* create request is pending and no sendMessage call made with that
\* configuration has issued a create, send or fetch request.
C14_InvalidConfigNoRequest ==
    ~ValidConfig(config) =>
        /\ creates = <<>>
        /\ \A d \in Dispatches : d.cfg = config => ~Requested(d)

\* the host or the port of cfg sanitizes to the empty string
Unsanitizable(cfg) ==
    SanitizeHost(cfg.serverUrl) = <<>> \/ SanitizePort(cfg.mobilePort) = <<>>

\* C15: a step that runs checkConnection with an unsanitizable config starts
\* no request (no health request, no agent request, no probe left in
\* flight) and leaves the flag false and the label 'Disconnected', whatever
\* they were before.
C15_InvalidConfigProbe ==
    [][(lastProbe' # lastProbe /\ Unsanitizable(lastProbe'.cfg)) =>
          /\ lastProbe'.health = "configError"
          /\ ~lastProbe'.sunaReq
          /\ Len(probes') = Len(probes)
          /\ <<isConnected', connectionStatus'>> = Disconnected]_vars

C15_Witness ==
    /\ lastProbe.pc = "done" /\ Unsanitizable(lastProbe.cfg)
    /\ lastProbe.health = "configError"
    /\ refreshes = 1
    /\ <<isConnected, connectionStatus>> = Disconnected

\* the sendMessage call made in this step (sends' # sends): it has returned
\* (lastDisp') or it is the newest call in flight
Called == IF lastDisp'.n = sends' THEN lastDisp' ELSE disp'[Len(disp')]

\* C16: a call of sendMessage whose trimmed message is empty or longer than
\* 10,000 characters returns in the same step without a create or send
\* request, with a validation error when the client is connected, and
\* leaves log, session id, busy flag and the calls in flight as they were.
C16_ValidationLocal ==
    [][(/\ sends' # sends
        /\ \/ Trim(Called.msg) = <<>>
           \/ Len(Trim(Called.msg)) > MaxMessageLength)
       => (/\ Called.pc = "done"
           /\ Called.outcome \in {"notConnected", "emptyMessage", "tooLong"}
           /\ isConnected => Called.outcome \in {"emptyMessage", "tooLong"}
           /\ ~Requested(Called)
           /\ UNCHANGED <<messages, currentChatId, isLoading, disp, creates>>)]_vars

C16_Witness ==
    /\ isConnected
    /\ lastDisp.outcome = "tooLong" /\ Len(Trim(lastDisp.msg)) > MaxMessageLength
    /\ messages # <<>>
    /\ currentChatId # NoChat

\* C17: a call of sendMessage made while isConnected is false returns in the
\* same step: no create, send or fetch request, nothing appended to the
\* log, busy not set, no call left in flight.
C17_RequiresConnectivity ==
    [][(sends' # sends /\ ~isConnected)
       => (/\ Called.pc = "done"
           /\ Called.outcome = "notConnected"
           /\ ~Requested(Called) /\ ~Called.setBusy
           /\ UNCHANGED <<messages, currentChatId, isLoading, disp, creates>>)]_vars

C17_Witness ==
    /\ ~isConnected
    /\ lastDisp.outcome = "notConnected"
    /\ lastDisp.msg = <<" ", "h">>
    /\ lastDisp.chatId = NoChat

\* the step settles a create request with a 2xx answer and a chat id
CreateSucceeds == issued' # issued

\* the step settles the create request of newChat() call (NewChatResponse)
StandaloneCreateSettles == Len(creates') < Len(creates)

\* C18: a step in which a create request is answered 2xx with a chat id sets
\* the session id to that id and drops every earlier log entry; the log then
\* starts with the system announcement, which is its only entry when the
\* create was a newChat() call (after a lazy create the calling sendMessage
\* goes on and appends its own entries behind it).
C18_CreateSuccess ==
    [][CreateSucceeds =>
          /\ currentChatId' = issued'
          /\ messages' # <<>>
          /\ messages'[1].role = "system"
          /\ messages'[1].content = <<"New conversation started!">>
          /\ \A j \in DOMAIN messages : \A k \in DOMAIN messages' :
                messages'[k] # messages[j]
          /\ StandaloneCreateSettles => Len(messages') = 1
          /\ \A k \in 2..Len(messages') :
                messages'[k].id[1] = disp'[Len(disp')].n]_vars

C18_Witness ==
    /\ clears = 1 /\ chats = 1 /\ creates = <<>>
    /\ currentChatId = issued /\ issued = 1
    /\ messages = <<Msg(<<1, "chat">>, "system", <<"New conversation started!">>)>>

\* the step is a newChat() call that fails on the configuration
CreateConfigError == chats' # chats /\ creates' = creates

\* the step settles the lazy create request of the sendMessage call d with
\* a failure
LazyCreateFails(d) ==
    /\ d.pc = "creating"
    /\ \E j \in DOMAIN disp' : disp'[j].n = d.n /\ disp'[j].createOut = "failed"

\* C19: a step in which a create request fails (non-2xx, unparseable body,
\* transport error, timeout) or newChat() fails on the configuration leaves
\* the session id and the log as they were; after a failed lazy create the
\* old log is kept and what the calling sendMessage appends behind it is no
\* error entry.
C19_CreateFailure ==
    [][/\ (StandaloneCreateSettles /\ ~CreateSucceeds) =>
              (currentChatId' = currentChatId /\ messages' = messages)
       /\ CreateConfigError =>
              (currentChatId' = currentChatId /\ messages' = messages)
       /\ \A i \in DOMAIN disp :
              LazyCreateFails(disp[i]) =>
                  /\ currentChatId' = currentChatId
                  /\ Len(messages') >= Len(messages)
                  /\ SubSeq(messages', 1, Len(messages)) = messages
                  /\ \A k \in (Len(messages) + 1)..Len(messages') :
                        messages'[k].role # "error"]_vars

C19_Witness ==
    /\ chats = 2 /\ creates = <<>>
    /\ issued = 1 /\ currentChatId = 1
    /\ messages = <<Msg(<<1, "chat">>, "system", <<"New conversation started!">>)>>

\* C20: a clearChat step issues no request (no create request, no call of
\* sendMessage and no probe is started or changed), leaves session id, flag,
\* label, config and busy flag as they were, and leaves a log of exactly one
\* system notice.
C20_ClearChatLocal ==
    [][clears' # clears =>
          /\ UNCHANGED <<currentChatId, isConnected, connectionStatus, config,
                         isLoading, creates, disp, lastDisp, probes, issued>>
          /\ Len(messages') = 1
          /\ messages'[1].role = "system"
          /\ messages'[1].content =
                <<"Chat cleared. Messages are still saved on server.">>]_vars

C20_Witness ==
    /\ clears = 1
    /\ currentChatId # NoChat /\ isLoading /\ disp # <<>>
    /\ messages = <<Msg(<<1, "clear">>, "system",
                        <<"Chat cleared. Messages are still saved on server.">>)>>

\* C21: a step in which the fetch of a dispatch runs into its 10 s abort
\* keeps the log and appends exactly one error entry, 'Response timed out',
\* which is not the text appended for another fetch failure, and leaves busy
\* false.
C21_FetchTimeout ==
    [][(lastDisp' # lastDisp /\ lastDisp'.outcome = "fetchTimeout") =>
          /\ lastDisp'.sendReq # NoRequest /\ lastDisp'.fetchReq # NoRequest
          /\ Len(messages') = Len(messages) + 1
          /\ SubSeq(messages', 1, Len(messages)) = messages
          /\ messages'[Len(messages')] =
                Msg(<<lastDisp'.n, "end">>, "error", <<"Response timed out">>)
          /\ messages'[Len(messages')].content # fetchErrorText("netError")
          /\ ~isLoading']_vars

C21_Witness ==
    /\ lastDisp.outcome = "fetchTimeout" /\ lastDisp.fetchReq # NoRequest
    /\ ~isLoading
    /\ messages # <<>>
    /\ messages[Len(messages)] =
          Msg(<<lastDisp.n, "end">>, "error", <<"Response timed out">>)

\* C22: whenever a bounded call is pending, what the client would do when
\* the call runs into its deadline differs from what it would do when the
\* transport fails: the state a create request leaves (session id, log),
\* the outcome a probe can tell apart, and the error text appended for a
\* send and for a fetch.
C22_TimeoutsDistinct ==
    /\ \A k \in DOMAIN creates :
          newChatSettled("timeout", <<creates[k].n, "chat">>)
              # newChatSettled("netError", <<creates[k].n, "chat">>)
    /\ \A i \in DOMAIN disp :
          /\ disp[i].pc = "creating" =>
                newChatSettled("timeout", <<disp[i].n, "lazyChat">>)
                    # newChatSettled("netError", <<disp[i].n, "lazyChat">>)
          /\ disp[i].pc = "sending" =>
                sendErrorText("timeout") # sendErrorText("netError")
          /\ disp[i].pc = "fetching" =>
                fetchErrorText("timeout") # fetchErrorText("netError")
    /\ \A i \in DOMAIN probes :
          /\ probes[i].pc = "health" => HealthClass("timeout") # HealthClass("netError")
          /\ probes[i].pc = "suna" => SunaClass("timeout") # SunaClass("netError")

Rejections == {"rejectedError", "rejectedNoError", "rejectedUnparseable"}

\* C23: a step in which the send request of a dispatch is answered non-2xx
\* ends the dispatch: the log is kept and gains exactly one error entry (the
\* error text of the payload when there is one, a generic text otherwise),
\* the dispatch has appended no placeholder and issued no fetch request, and
\* busy is false.
C23_SendRejected ==
    [][(lastDisp' # lastDisp /\ lastDisp'.outcome \in Rejections) =>
          /\ Len(messages') = Len(messages) + 1
          /\ SubSeq(messages', 1, Len(messages)) = messages
          /\ messages'[Len(messages')].id = <<lastDisp'.n, "end">>
          /\ messages'[Len(messages')].role = "error"
          /\ messages'[Len(messages')].content =
                IF lastDisp'.outcome = "rejectedError"
                THEN <<"(error text of the payload)">>
                ELSE IF lastDisp'.outcome = "rejectedNoError"
                THEN <<"Failed to send message">>
                ELSE <<"Server error">>
          /\ lastDisp'.phId = NoId
          /\ ~InLog(<<lastDisp'.n, "thinking">>)
          /\ lastDisp'.fetchReq = NoRequest
          /\ \A j \in DOMAIN disp' : disp'[j].n # lastDisp'.n
          /\ ~isLoading']_vars

C23_Witness ==
    /\ lastDisp.outcome = "rejectedError" /\ lastDisp.sendReq # NoRequest
    /\ lastDisp.fetchReq = NoRequest /\ lastDisp.phId = NoId
    /\ ~isLoading
    /\ messages # <<>>
    /\ messages[Len(messages)] =
          Msg(<<lastDisp.n, "end">>, "error", <<"(error text of the payload)">>)

\* the outcomes of a dispatch whose fetch request was answered with a body
\* that parses
FetchAnswered == {"resolved", "fetchFault", "crashed"}

\* C24: a step in which the fetch of a dispatch is answered appends exactly
\* one entry for that dispatch, an assistant entry, and no error entry.
C24_ResponseResolution ==
    [][(lastDisp' # lastDisp /\ lastDisp'.outcome \in FetchAnswered) =>
          /\ \E k \in DOMAIN messages' :
                /\ messages'[k].id = <<lastDisp'.n, "end">>
                /\ messages'[k].role = "assistant"
          /\ \A k \in DOMAIN messages' :
                messages'[k].id[1] = lastDisp'.n => messages'[k].role # "error"]_vars

\* the positions a sendMessage call may move between in one step
DispatchMoves ==
    { <<"creating", "sending">>, <<"sending", "settling">>, <<"settling", "fetching">> }

FetchSettled == FetchFailures \cup {"resolved", "crashed"}

\* a step of the client that ends the sendMessage call d, whose fetch is
\* awaited, in another way than by the fetch settling, and leaves busy false
CancelFetch(d) ==
    /\ NextChat
    /\ \A j \in DOMAIN disp' : disp'[j].n # d.n
    /\ lastDisp'.n = d.n
    /\ lastDisp'.outcome \notin FetchSettled
    /\ ~isLoading'

\* C26: whenever the fetch of a dispatch is awaited, the client has a step
\* that cancels it.
C26_FetchCancellable ==
    \A i \in DOMAIN disp :
        disp[i].pc = "fetching" => ENABLED CancelFetch(disp[i])

\* the step belongs to a probe: checkConnection is called or one of its
\* requests settles
ProbeStep == probes' # probes \/ lastProbe' # lastProbe \/ refreshes' # refreshes

\* the step belongs to sendMessage, newChat or clearChat: a call or one of
\* its requests or timers
MessagingStep ==
    \/ sends' # sends \/ chats' # chats \/ clears' # clears
    \/ disp' # disp \/ creates' # creates \/ lastDisp' # lastDisp

\* C27: a step of a probe leaves the session id and the message log as they
\* are (so it appends no error entry), and a step of sendMessage, newChat or
\* clearChat leaves the connected flag and its label as they are.
C27_DisjointWrites ==
    [][/\ ProbeStep => UNCHANGED <<messages, currentChatId>>
       /\ MessagingStep => UNCHANGED <<isConnected, connectionStatus>>]_vars

C27_Witness ==
    /\ refreshes = 1 /\ lastProbe.pc = "done" /\ lastProbe.suna = "fault"
    /\ <<isConnected, connectionStatus>> = Disconnected
    /\ lastDisp.outcome = "netError"
    /\ currentChatId # NoChat
    /\ messages # <<>> /\ messages[Len(messages)].role = "error"
    /\ \A k \in DOMAIN messages : messages[k].id[1] = lastDisp.n

\* no probe has been started: none is in flight and none has finished
NoProbeYet == probes = <<>> /\ lastProbe.pc = "none"

\* C28: while the configuration load is pending no probe has been started,
\* and when the load has installed a stored config with autoConnect false
\* (and the user has not refreshed or changed the settings) there still is
\* none.
C28_LoadBeforeProbe ==
    /\ loadPc = "loading" => NoProbeYet
    /\ (/\ loadPc = "done" /\ connCalls = 0
        /\ stored # NoConfig /\ config = Merge(defaultConfig, stored[1])
        /\ ~config.autoConnect) => NoProbeYet

\* the step calls checkConnection with config cfg: a probe of cfg is put in
\* flight, or has failed on the configuration at once
ProbeStarted(cfg) ==
    \/ Len(probes') = Len(probes) + 1 /\ probes'[Len(probes')].cfg = cfg
    \/ lastProbe' # lastProbe /\ lastProbe'.cfg = cfg /\ lastProbe'.health = "configError"

\* the step sets a timer that will call checkConnection with config cfg
ProbeScheduled(cfg) ==
    Len(timers') = Len(timers) + 1 /\ timers'[Len(timers')] = cfg

\* C29: a step that updates the configuration starts a probe of the updated
\* configuration or sets the timer for one.
C29_UpdateProbesNewConfig ==
    [][updates' # updates => (ProbeStarted(config') \/ ProbeScheduled(config'))]_vars

\* C30: after a step that calls updateConfig the in-memory config is the
\* config with every partial merged in, in call order; after a single call
\* the stored item is that config, or the item as it was when the save
\* failed.
C30_MergeAndPersist ==
    [][updates' # updates =>
          /\ config' = merged'
          /\ updates' = updates + 1 => stored' \in {stored, <<config'>>}]_vars

\* the config with its host and port replaced by their sanitized values
Cleaned(cfg) ==
    [cfg EXCEPT !.serverUrl = SanitizeHost(cfg.serverUrl),
                !.mobilePort = SanitizePort(cfg.mobilePort)]

\* C31: sanitizing a sanitized host or port changes nothing, for the fields
\* of the config and of every probe in flight or finished; so the base url
\* of the cleaned config is the base url of the config.
C31_SanitizeIdempotent ==
    \A cfg \in {config, lastProbe.cfg} \cup {probes[i].cfg : i \in DOMAIN probes} :
        /\ SanitizeHost(SanitizeHost(cfg.serverUrl)) = SanitizeHost(cfg.serverUrl)
        /\ SanitizePort(SanitizePort(cfg.mobilePort)) = SanitizePort(cfg.mobilePort)
        /\ getBaseUrl(Cleaned(cfg)) = getBaseUrl(cfg)

C31_Witness ==
    /\ refreshes = 1 /\ probes # <<>>
    /\ probes[1].cfg.serverUrl = <<"/", "h">>
    /\ probes[1].cfg.mobilePort = <<"5", ":">>
    /\ getBaseUrl(probes[1].cfg) = <<"http://", "h", ":", "5">>

LogExtended ==
    /\ Len(messages') >= Len(messages)
    /\ SubSeq(messages', 1, Len(messages)) = messages

\* C33: a step that neither settles a create request with success nor
\* clears the chat leaves the previous log as a prefix of the new log (the
\* entries keep id, role, content and order), and what it adds are entries
\* of the one call the step belongs to.
C33_LogAppendOnly ==
    [][(~CreateSucceeds /\ clears' = clears) =>
          /\ LogExtended
          /\ Len(messages') <= Len(messages) + 2
          /\ \A j, k \in (Len(messages) + 1)..Len(messages') :
                messages'[j].id[1] = messages'[k].id[1]]_vars

C33_Witness ==
    /\ Len(messages) = 4
    /\ messages[1].role = "system" /\ messages[1].id = <<1, "chat">>
    /\ messages[2] = Msg(<<1, "echo">>, "user", <<" ", "h">>)
    /\ messages[3].id = <<1, "thinking">>
    /\ messages[4].role = "error" /\ messages[4].id = <<1, "end">>

\* the sendMessage call e, in flight after the step, has moved to position
\* pc in this step
Reached(e, pc) ==
    /\ e.pc = pc
    /\ \A i \in DOMAIN disp : disp[i].n = e.n => disp[i].pc # pc

\* C34: a send or fetch request issued in a step (by a call whose lazy
\* create, if it made one, did not fail) carries a session id that is set
\* and is the session id the client holds after that step; so after a lazy
\* create that returned id s the send of the same call goes to s.
C34_RequestsAddressSession ==
    [][\A j \in DOMAIN disp' :
          LET e == disp'[j]
          IN  e.createOut # "failed" =>
                 /\ Reached(e, "sending") =>
                        (e.sendReq # <<NoChat>> /\ e.sendReq = <<currentChatId'>>)
                 /\ Reached(e, "fetching") =>
                        (e.fetchReq # <<NoChat>> /\ e.fetchReq = <<currentChatId'>>)]_vars

\* the step takes a probe past its transport check: the probe stays in
\* flight and now awaits the agent-health answer
TransportChecked ==
    /\ Len(probes') = Len(probes)
    /\ lastProbe' = lastProbe
    /\ \E i \in DOMAIN probes : probes[i].pc = "health" /\ probes'[i].pc = "suna"

\* C35: a step that takes a probe past its transport check, the probe still
\* awaiting the agent-health answer, leaves the connected flag and the label
\* as they were; so a sendMessage called while the agent-health check is
\* awaited is judged by the flag of the last finished probe.
C35_VerdictOnlyAtFinish ==
    [][TransportChecked => UNCHANGED <<isConnected, connectionStatus>>]_vars

\* C36: the user entry appended by a sendMessage call that has issued its
\* send request has the trimmed argument as its content, which is the
\* message field of that request.
C36_EchoTrimmed ==
    \A k \in DOMAIN messages : \A d \in Dispatches :
        (/\ messages[k].role = "user" /\ messages[k].id = d.echoId
         /\ d.sendBody # NoRequest) =>
            /\ messages[k].content = Trim(d.msg)
            /\ d.sendBody = <<messages[k].content>>

\* the step appends the entry id to the log
Appended(id) ==
    /\ ~InLog(id)
    /\ \E k \in DOMAIN messages' : messages'[k].id = id

\* C37: a step that appends the placeholder or the final entry (assistant
\* or error) of a sendMessage call in flight appends it to the log of the
\* session the call's user entry was appended to: the client still holds
\* that session.
C37_NoCrossSessionLeak ==
    [][\A i \in DOMAIN disp :
          (/\ disp[i].echoId # NoId
           /\ \/ Appended(<<disp[i].n, "thinking">>)
              \/ Appended(<<disp[i].n, "end">>))
          => currentChatId' = disp[i].session]_vars

\* the sendMessage call d has appended its user entry and has not ended: its
\* send request, its settling delay or its fetch request is pending
Working(d) == d.pc \in {"sending", "settling", "fetching"}

\* C38: while the provider is running, busy is true exactly when some
\* sendMessage call is between its user entry and its end; so busy is not
\* false while a send request, a settling delay or a fetch is pending.
C38_BusyMirrorsWork ==
    ~appCrashed => (isLoading <=> \E i \in DOMAIN disp : Working(disp[i]))

\* nothing is pending that could still start or finish a probe: the load
\* has settled, no save timer is set and no probe is in flight
ProbesSettled == loadPc = "done" /\ timers = <<>> /\ probes = <<>>

\* C39: when the load, every save timer and every probe have settled, the
\* probe that finished last (whose verdict flag and label hold) was run
\* against the base url of the current configuration.
C39_VerdictOfCurrentConfig ==
    (ProbesSettled /\ lastProbe.pc = "done")
        => getBaseUrl(lastProbe.cfg) = getBaseUrl(config)

====
